---- MODULE Spec2Model ----
(***************************************************************************)
(* Model of src/processor/simple_symbol_supplier.cc: SimpleSymbolSupplier  *)
(* with its remote fetch / convert fallback and its registry of buffers.   *)
(*                                                                         *)
(* A string is a sequence of one-character strings, a file's contents a    *)
(* sequence of byte values.  The filesystem follows POSIX (the __linux__   *)
(* branch of the source): "/" is the only separator the kernel knows.      *)
(***************************************************************************)
EXTENDS Integers, Sequences, FiniteSets, TLC

\* ------------------------------------------------------------------ bounds

\* Number of buffers the heap can hand out before GetCStringSymbolData is
\* no longer called in the model.
MaxAllocs == 2

\* ----------------------------------------------------------------- strings

\* A null CodeModule pointer.
NULL == [null |-> TRUE]

\* The value of string::traits_type::to_char_type(string::traits_type::eof()),
\* the delimiter std::getline is given (line 192): (char)-1.
EofChar == 255

UpperCase == <<"A","B","C","D","E","F","G","H","I","J","K","L","M",
               "N","O","P","Q","R","S","T","U","V","W","X","Y","Z">>
LowerCase == <<"a","b","c","d","e","f","g","h","i","j","k","l","m",
               "n","o","p","q","r","s","t","u","v","w","x","y","z">>

\* tolower (line 300), on one character.
tolower(c) ==
  IF \E i \in 1..26 : UpperCase[i] = c
  THEN LowerCase[CHOOSE i \in 1..26 : UpperCase[i] = c]
  ELSE c

\* std::transform(..., tolower) over a string (lines 299-300).
ToLowerStr(s) == [i \in 1..Len(s) |-> tolower(s[i])]

\* s.substr(pos) with a 0-based pos.
SubstrFrom(s, pos) == SubSeq(s, pos + 1, Len(s))

\* s.substr(0, n).
SubstrTo(s, n) == SubSeq(s, 1, n)

\* Positions of the characters of s that satisfy either separator.
SepPositions(s) == {i \in 1..Len(s) : s[i] = "/" \/ s[i] = "\\"}

Max(S) == CHOOSE x \in S : \A y \in S : y <= x

\* PathnameStripper::File: the part of a path after its last separator
\* ("/" or "\"), the whole string when it has none.
PathnameStripperFile(s) ==
  IF SepPositions(s) = {} THEN s ELSE SubstrFrom(s, Max(SepPositions(s)))

\* ---------------------------------------------------------- path derivation

\* debug_file_name when line 263 drops four characters instead of three.
DebugFileName_StripFour(module) ==
  LET debug_file_name == PathnameStripperFile(module.debug_file)
      code_file == PathnameStripperFile(module.code_file)
  IN IF debug_file_name = <<>> /\ Len(code_file) > 3
     THEN SubstrTo(code_file, Len(code_file) - 4) \o <<"p","d","b">>
     ELSE debug_file_name

\* debug_file_name after lines 260-265.
DebugFileName(module) ==
  LET debug_file_name == PathnameStripperFile(module.debug_file)
      code_file == PathnameStripperFile(module.code_file)
  IN IF debug_file_name = <<>> /\ Len(code_file) > 3
     THEN SubstrTo(code_file, Len(code_file) - 3) \o <<"p","d","b">>
     ELSE debug_file_name

\* Whether line 263 runs: debug_file_name is made up from code_file.
AssumesDebugFile(module) ==
  /\ PathnameStripperFile(module.debug_file) = <<>>
  /\ Len(PathnameStripperFile(module.code_file)) > 3

\* Whether GetSymbolFileAtPathFromRoot gets past lines 251 and 266.
DeriveOk(module) == module # NULL /\ DebugFileName(module) # <<>>

\* The identifier level without the test of line 283: a separator and the
\* identifier are appended even when there is nothing to append.
IdentifierSegment_NoOmit(module) ==
  <<"/">> \o (IF module.debug_identifier # <<>>
              THEN module.debug_identifier ELSE module.version)

\* The identifier / version directory level, lines 274-290 (with its
\* leading separator), empty when both fields are empty.
IdentifierSegment(module) ==
  IF module.debug_identifier # <<>> \/ module.version # <<>>
  THEN <<"/">> \o (IF module.debug_identifier # <<>>
                   THEN module.debug_identifier ELSE module.version)
  ELSE <<>>

\* The file stem, lines 295-305.
FileStem(debug_file_name) ==
  LET debug_file_extension ==
        ToLowerStr(IF Len(debug_file_name) > 4
                   THEN SubstrFrom(debug_file_name, Len(debug_file_name) - 4)
                   ELSE <<>>)
  IN IF debug_file_extension = <<".","p","d","b">>
     THEN SubstrTo(debug_file_name, Len(debug_file_name) - 4)
     ELSE debug_file_name

\* `path` as it stands at line 306, before either extension is appended.
PathStem(root_path, module) ==
  root_path \o <<"/">> \o DebugFileName(module) \o IdentifierSegment(module)
    \o <<"/">> \o FileStem(DebugFileName(module))

\* path_pdb (line 306) and path (line 307).
PdbPath(root_path, module) == PathStem(root_path, module) \o <<".","p","d","b">>
SymPath(root_path, module) == PathStem(root_path, module) \o <<".","s","y","m">>

SymbolServer ==
  <<"h","t","t","p",":","/","/","m","s","d","l",".","m","i","c","r","o","s",
    "o","f","t",".","c","o","m","/","d","o","w","n","l","o","a","d","/","s",
    "y","m","b","o","l","s">>

\* The URL of line 311: the server followed by path_pdb without root_path.
Url(root_path, module) ==
  SymbolServer \o SubstrFrom(PdbPath(root_path, module), Len(root_path))

\* --------------------------------------------------------------- filesystem
\* A filesystem is [dirs, files, ro]: the directories that exist, the regular
\* files with their contents, and the directories in which the process may
\* neither create nor remove an entry.

\* dirname(3) of an absolute path.
Dirname(p) ==
  LET pos == {i \in 1..Len(p) : p[i] = "/"}
  IN IF pos = {} THEN <<>>
     ELSE IF Max(pos) = 1 THEN <<"/">> ELSE SubstrTo(p, Max(pos) - 1)

\* file_exists: stat(2) succeeds on any kind of entry.
file_exists(fs, file_name) ==
  file_name \in fs.dirs \/ file_name \in DOMAIN fs.files

\* contents f with the file at p set to bytes c.
FilesWith(f, p, c) ==
  [q \in (DOMAIN f) \cup {p} |-> IF q = p THEN c ELSE f[q]]

FilesWithout(f, p) == [q \in (DOMAIN f) \ {p} |-> f[q]]

\* errno of mkdir(2), "OK" when it creates the directory.
MkdirErrno(fs, p) ==
  IF file_exists(fs, p) THEN "EEXIST"
  ELSE IF Dirname(p) \in DOMAIN fs.files THEN "ENOTDIR"
  ELSE IF Dirname(p) \notin fs.dirs THEN "ENOENT"
  ELSE IF Dirname(p) \in fs.ro THEN "EACCES"
  ELSE "OK"

\* mkdir(2): the filesystem after the call, its return value and errno.
mkdir(fs, p) ==
  LET e == MkdirErrno(fs, p)
  IN IF e = "OK"
     THEN [fs |-> [fs EXCEPT !.dirs = @ \cup {p}], ret |-> 0, errno |-> e]
     ELSE [fs |-> fs, ret |-> -1, errno |-> e]

Min(S) == CHOOSE x \in S : \A y \in S : x <= y

\* The loop of mkpath when line 141 gives up on any failed mkdir, an
\* existing directory included.
RECURSIVE MkpathLoop_FailOnExisting(_, _, _)
MkpathLoop_FailOnExisting(fs, path, p) ==
  LET seps == {i \in p..Len(path) : path[i] = "\\" \/ path[i] = "/"}
  IN IF seps = {} THEN [fs |-> fs, ret |-> 1]
     ELSE LET q == Min(seps)
              r == mkdir(fs, SubstrTo(path, q - 1))
          IN IF r.ret = -1
             THEN [fs |-> r.fs, ret |-> 0]
             ELSE MkpathLoop_FailOnExisting(r.fs, path, q + 1)

\* The while(1) loop of mkpath, lines 132-144, from scan position p (1-based).
RECURSIVE MkpathLoop(_, _, _)
MkpathLoop(fs, path, p) ==
  LET seps == {i \in p..Len(path) : path[i] = "\\" \/ path[i] = "/"}
  IN IF seps = {} THEN [fs |-> fs, ret |-> 1]
     ELSE LET q == Min(seps)
              r == mkdir(fs, SubstrTo(path, q - 1))
          IN IF r.ret = -1 /\ r.errno = "ENOENT"
             THEN [fs |-> r.fs, ret |-> 0]
             ELSE MkpathLoop(r.fs, path, q + 1)

\* mkpath, lines 109-152 (malloc taken to succeed).
mkpath(fs, path) ==
  IF Len(path) <= 0 THEN [fs |-> fs, ret |-> 0]
  ELSE IF path[Len(path)] = "/"
            /\ mkdir(fs, SubstrTo(path, Len(path) - 1)).ret = 0
       THEN [fs |-> mkdir(fs, SubstrTo(path, Len(path) - 1)).fs, ret |-> 1]
       ELSE MkpathLoop(fs, path, 2)

\* Whether open(2) with O_WRONLY|O_CREAT|O_TRUNC succeeds on p: fopen(p, "wb")
\* and the shell's ">p".
CanOpenForWrite(fs, p) ==
  \/ p \in DOMAIN fs.files
  \/ /\ p \notin fs.dirs
     /\ Dirname(p) \in fs.dirs
     /\ Dirname(p) \notin fs.ro

\* unlink(2), its failure ignored as on line 327.
unlink(fs, p) ==
  IF p \in DOMAIN fs.files /\ Dirname(p) \notin fs.ro
  THEN [fs EXCEPT !.files = FilesWithout(@, p)]
  ELSE fs

\* ------------------------------------------------------ external capabilities

\* Bodies the symbol server may answer with (an empty body included).
FetchBodies == {<<>>, <<80>>}

\* What the converter may have written to its standard output when it exits
\* with status 0, and when it exits with a failure status.
ConvertedOutputs == {<<77, 10>>, <<77, 255, 10>>}
PartialOutputs == {<<>>, <<77>>}

\* Values the uninitialized int buf_size (line 310) may hold when load_url
\* returns without assigning *size: zero, or anything else.
UninitInt == {0, 1}

\* load_url, lines 79-107: what the caller holds afterwards.  On a failed
\* transfer (or a failed curl_easy_init) it returns 0 and never writes *size;
\* on success data is the realloc'ed body (1: some non-null pointer), 0 when
\* no byte arrived.
load_url(url) ==
  {[ok |-> FALSE, data |-> 0, bytes |-> <<>>, buf_size |-> g] :
      g \in UninitInt}
  \cup
  {[ok |-> TRUE, data |-> IF b = <<>> THEN 0 ELSE 1,
    bytes |-> b, buf_size |-> Len(b)] : b \in FetchBodies}

\* Lines 314-319: mkpath, fopen(path_pdb, "wb"), fwrite, fclose.  fwrite of
\* a non-zero count from a null pointer is undefined: the process faults,
\* after fopen has created / truncated the file.
WriteNative(fs, path_pdb, fetched) ==
  LET made == mkpath(fs, path_pdb).fs
  IN IF ~CanOpenForWrite(made, path_pdb)
     THEN [fs |-> made, opened |-> FALSE, fault |-> FALSE]
     ELSE IF fetched.buf_size # 0 /\ fetched.data = 0
     THEN [fs |-> [made EXCEPT !.files = FilesWith(@, path_pdb, <<>>)],
           opened |-> TRUE, fault |-> TRUE]
     ELSE [fs |-> [made EXCEPT !.files =
                      FilesWith(@, path_pdb, SubstrTo(fetched.bytes, fetched.buf_size))],
           opened |-> TRUE, fault |-> FALSE]

\* system(convert_cmd), lines 321-325: "wine dump_syms.exe <path_pdb> ><path>".
\* The shell opens <path> for writing before it runs the converter; when
\* that fails, or no child can be started, nothing runs and the status is a
\* failure.  Otherwise the converter's exit status is the result and what it
\* printed is the content of <path>.  The paths of the model hold no
\* character the shell treats specially.
system(fs, path_pdb, path) ==
  {[fs |-> fs, status |-> -1, ran |-> FALSE]}
  \cup
  (IF ~CanOpenForWrite(fs, path)
   THEN {[fs |-> fs, status |-> 1, ran |-> FALSE]}
   ELSE {[fs |-> [fs EXCEPT !.files = FilesWith(@, path, out)],
          status |-> 0, ran |-> TRUE] : out \in ConvertedOutputs}
        \cup
        {[fs |-> [fs EXCEPT !.files = FilesWith(@, path, out)],
          status |-> 1, ran |-> TRUE] : out \in PartialOutputs})

\* ------------------------------------------------------------------ lookup
\* Every operation below yields the set of its possible outcomes, one for
\* each way the server, the converter and the undefined reads can go.

\* What one call of GetSymbolFileAtPathFromRoot did, for the properties.
RootLog(root_path) ==
  [root |-> root_path, derived |-> FALSE, hit |-> FALSE, fetches |-> 0,
   fetch_ok |-> FALSE, url |-> <<>>, opened |-> FALSE, system_calls |-> 0,
   ran |-> FALSE, status |-> 0, changed |-> FALSE, present |-> FALSE,
   assumed |-> FALSE, debug_file_name |-> <<>>, path |-> <<>>,
   path_pdb |-> <<>>]

\* The log of a call that got past line 270, with what it derived.
DerivedLog(root_path, module) ==
  [RootLog(root_path) EXCEPT
     !.derived = TRUE,
     !.assumed = AssumesDebugFile(module),
     !.debug_file_name = DebugFileName(module),
     !.path = SymPath(root_path, module),
     !.path_pdb = PdbPath(root_path, module)]

\* ConvertAndCheck without the unlink of line 327.
ConvertAndCheck_NoUnlink(before, fs, module, root_path, log) ==
  LET path == SymPath(root_path, module)
      path_pdb == PdbPath(root_path, module)
  IN {LET present == file_exists(c.fs, path)
      IN [fs |-> c.fs,
          result |-> IF present THEN "FOUND" ELSE "NOT_FOUND",
          symbol_file |-> IF present THEN path ELSE <<>>,
          log |-> [log EXCEPT !.system_calls = 1, !.ran = c.ran,
                              !.status = c.status, !.present = present,
                              !.changed = (c.fs # before)]]
      : c \in system(fs, path_pdb, path)}

\* Lines 320-339 after the native file was written: convert, unlink on
\* success, and the final file_exists.  `before` is the filesystem the
\* root's attempt started from.
ConvertAndCheck(before, fs, module, root_path, log) ==
  LET path == SymPath(root_path, module)
      path_pdb == PdbPath(root_path, module)
  IN {LET after == IF c.status = 0 THEN unlink(c.fs, path_pdb) ELSE c.fs
          present == file_exists(after, path)
      IN [fs |-> after,
          result |-> IF present THEN "FOUND" ELSE "NOT_FOUND",
          symbol_file |-> IF present THEN path ELSE <<>>,
          log |-> [log EXCEPT !.system_calls = 1, !.ran = c.ran,
                              !.status = c.status, !.present = present,
                              !.changed = (after # before)]]
      : c \in system(fs, path_pdb, path)}

\* Lines 309-339 when the first file_exists(path) is false.
CacheMiss(fs, module, root_path, log) ==
  LET path_pdb == PdbPath(root_path, module)
      url == Url(root_path, module)
  IN UNION {LET w == WriteNative(fs, path_pdb, fetched)
                l == [log EXCEPT !.fetches = 1, !.fetch_ok = fetched.ok,
                                 !.url = url, !.opened = w.opened,
                                 !.changed = (w.fs # fs)]
            IN IF w.fault
               THEN {[fs |-> w.fs, result |-> "SIGSEGV", symbol_file |-> <<>>,
                      log |-> l]}
               ELSE ConvertAndCheck(fs, w.fs, module, root_path, l)
            : fetched \in load_url(url)}

\* GetSymbolFileAtPathFromRoot without the test of line 309: the fetch and
\* convert steps run whether or not the symbol file is there.
GetSymbolFileAtPathFromRoot_AlwaysFetch(fs, module, root_path) ==
  IF ~DeriveOk(module)
  THEN {[fs |-> fs, result |-> "NOT_FOUND", symbol_file |-> <<>>,
         log |-> RootLog(root_path)]}
  ELSE CacheMiss(fs, module, root_path, DerivedLog(root_path, module))

\* GetSymbolFileAtPathFromRoot, lines 243-340.
GetSymbolFileAtPathFromRoot(fs, module, root_path) ==
  IF ~DeriveOk(module)
  THEN {[fs |-> fs, result |-> "NOT_FOUND", symbol_file |-> <<>>,
         log |-> RootLog(root_path)]}
  ELSE IF file_exists(fs, SymPath(root_path, module))
  THEN {[fs |-> fs, result |-> "FOUND",
         symbol_file |-> SymPath(root_path, module),
         log |-> [DerivedLog(root_path, module) EXCEPT !.hit = TRUE,
                                                       !.present = TRUE]]}
  ELSE CacheMiss(fs, module, root_path, DerivedLog(root_path, module))

\* The for loop of GetSymbolFile, lines 169-177, from path_index (1-based);
\* trace collects the roots' logs.
RECURSIVE GetSymbolFileLoop(_, _, _, _, _)
GetSymbolFileLoop(fs, module, paths, path_index, trace) ==
  IF path_index > Len(paths)
  THEN {[fs |-> fs, result |-> "NOT_FOUND", symbol_file |-> <<>>,
         trace |-> trace]}
  ELSE UNION {IF o.result # "NOT_FOUND"
              THEN {[fs |-> o.fs, result |-> o.result,
                     symbol_file |-> o.symbol_file,
                     trace |-> Append(trace, o.log)]}
              ELSE GetSymbolFileLoop(o.fs, module, paths, path_index + 1,
                                     Append(trace, o.log))
              : o \in GetSymbolFileAtPathFromRoot(fs, module, paths[path_index])}

Reverse(seq) == [i \in 1..Len(seq) |-> seq[Len(seq) + 1 - i]]

\* GetSymbolFile walking paths_ from its last entry to its first.
GetSymbolFile_Reversed(fs, module, paths) ==
  GetSymbolFileLoop(fs, module, Reverse(paths), 1, <<>>)

\* GetSymbolFile (three arguments), lines 161-178.
GetSymbolFile(fs, module, paths) == GetSymbolFileLoop(fs, module, paths, 1, <<>>)

\* std::getline(in, *symbol_data, delim), line 192: the bytes before the
\* first delimiter, all of them when there is none.
GetLine(bytes, delim) ==
  LET at == {i \in 1..Len(bytes) : bytes[i] = delim}
  IN IF at = {} THEN bytes ELSE SubstrTo(bytes, Min(at) - 1)

\* Lines 191-194: an ifstream on a path that is no regular file yields nothing.
ReadSymbolData(fs, symbol_file) ==
  IF symbol_file \in DOMAIN fs.files
  THEN GetLine(fs.files[symbol_file], EofChar)
  ELSE <<>>

\* GetSymbolFile (four arguments), lines 180-197.
GetSymbolFileAndData(fs, module, paths) ==
  {[fs |-> o.fs, result |-> o.result, symbol_file |-> o.symbol_file,
    trace |-> o.trace,
    symbol_data |-> IF o.result = "FOUND"
                    THEN ReadSymbolData(o.fs, o.symbol_file) ELSE <<>>]
   : o \in GetSymbolFile(fs, module, paths)}

\* ------------------------------------------------------------------- state

VARIABLES
  fs,               \* the local filesystem, [dirs, files, ro]
  paths_,           \* SimpleSymbolSupplier::paths_, the search roots in order
  memory_buffers_,  \* SimpleSymbolSupplier::memory_buffers_: code_file -> buffer
  heap,             \* the live new[]-ed buffers: buffer -> its bytes
  issued,           \* every buffer new[] returned, in order, with its code_file
  freed,            \* every buffer delete[] was applied to, in order
  alive,            \* FALSE once the process has faulted
  last              \* the latest call: its arguments, what it did and returned

vars == <<fs, paths_, memory_buffers_, heap, issued, freed, alive, last>>

\* The modules callers ask about.
AppModule ==
  [code_file |-> <<"a","p","p",".","e","x","e">>, debug_file |-> <<>>,
   debug_identifier |-> <<"A","B","C","1","2","3">>, version |-> <<>>]
LibModule ==
  [code_file |-> <<"c",":","\\","l","i","b",".","d","l","l">>,
   debug_file |-> <<"l","i","b",".","P","D","B">>,
   debug_identifier |-> <<>>, version |-> <<"1",".","0">>]
ShortModule ==
  [code_file |-> <<"a","b">>, debug_file |-> <<>>,
   debug_identifier |-> <<"A","B","C","1","2","3">>, version |-> <<>>]
Modules == {AppModule, LibModule, ShortModule}

RootDir == <<"/">>
CacheRoot == <<"/","c","a","c","h","e">>
ReadOnlyRoot == <<"/","r","o">>

\* The root lists a supplier may be constructed with.
RootLists ==
  {<<>>, <<CacheRoot>>, <<ReadOnlyRoot, CacheRoot>>, <<CacheRoot, ReadOnlyRoot>>}

NoFiles == [q \in {} |-> <<>>]
NoBuffers == [q \in {} |-> 0]

NoCall ==
  [op |-> "none", module |-> NULL, returned |-> TRUE, result |-> "none",
   symbol_file |-> <<>>, symbol_data |-> <<>>, buffer |-> 0, size |-> 0,
   trace |-> <<>>, new |-> "none", freed |-> 0,
   pre |-> [fs |-> [dirs |-> {}, files |-> NoFiles, ro |-> {}],
            memory_buffers_ |-> NoBuffers, heap |-> NoBuffers]]

Pre == [fs |-> fs, memory_buffers_ |-> memory_buffers_, heap |-> heap]

\* After construction: the roots are set, the registry is empty; the cache
\* roots exist and hold nothing yet, one of them not writable.
Init ==
  /\ paths_ \in RootLists
  /\ fs = [dirs |-> {RootDir, CacheRoot, ReadOnlyRoot}, files |-> NoFiles,
           ro |-> {ReadOnlyRoot}]
  /\ memory_buffers_ = NoBuffers
  /\ heap = NoBuffers
  /\ issued = <<>>
  /\ freed = <<>>
  /\ alive = TRUE
  /\ last = NoCall

\* ----------------------------------------------------------------- actions

\* A call of the three-argument GetSymbolFile.
CallGetSymbolFile(module) ==
  /\ alive
  /\ \E o \in GetSymbolFile(fs, module, paths_) :
       /\ fs' = o.fs
       /\ alive' = (o.result # "SIGSEGV")
       /\ last' = [NoCall EXCEPT !.op = "GetSymbolFile", !.module = module,
                     !.returned = (o.result # "SIGSEGV"), !.result = o.result,
                     !.symbol_file = o.symbol_file, !.trace = o.trace,
                     !.pre = Pre]
  /\ UNCHANGED <<paths_, memory_buffers_, heap, issued, freed>>

\* A call of the four-argument GetSymbolFile.
CallGetSymbolFileAndData(module) ==
  /\ alive
  /\ \E o \in GetSymbolFileAndData(fs, module, paths_) :
       /\ fs' = o.fs
       /\ alive' = (o.result # "SIGSEGV")
       /\ last' = [NoCall EXCEPT !.op = "GetSymbolFileAndData",
                     !.module = module,
                     !.returned = (o.result # "SIGSEGV"), !.result = o.result,
                     !.symbol_file = o.symbol_file, !.trace = o.trace,
                     !.symbol_data = o.symbol_data, !.pre = Pre]
  /\ UNCHANGED <<paths_, memory_buffers_, heap, issued, freed>>

\* What the new-expression of line 214 can do: yield storage, yield a null
\* pointer (an allocator built not to throw), or throw std::bad_alloc.
NewOutcomes == {"allocated", "null", "bad_alloc"}

\* std::map::insert, line 222: an existing key keeps its value.
MapInsert(m, key, value) ==
  IF key \in DOMAIN m THEN m
  ELSE [q \in (DOMAIN m) \cup {key} |-> IF q = key THEN value ELSE m[q]]

\* Lines 212-223 once the lookup returned FOUND with symbol_data_string = data;
\* fresh is the pointer new[] yields when it succeeds.
DuplicateAndRegister(o, module, buffers, hp, fresh, new) ==
  LET size == Len(o.symbol_data) + 1
      base == [fs |-> o.fs, symbol_file |-> o.symbol_file, trace |-> o.trace,
               symbol_data |-> o.symbol_data, size |-> size]
  IN CASE new = "allocated" ->
            base @@ [new |-> new, returned |-> TRUE, result |-> "FOUND", buffer |-> fresh,
                     memory_buffers_ |-> MapInsert(buffers, module.code_file, fresh),
                     heap |-> [q \in (DOMAIN hp) \cup {fresh} |->
                                 IF q = fresh THEN o.symbol_data \o <<0>>
                                 ELSE hp[q]]]
       [] new = "null" ->
            base @@ [new |-> new, returned |-> TRUE, result |-> "INTERRUPT", buffer |-> 0,
                     memory_buffers_ |-> buffers, heap |-> hp]
       [] OTHER ->
            base @@ [new |-> new, returned |-> FALSE, result |-> "bad_alloc", buffer |-> 0,
                     memory_buffers_ |-> buffers, heap |-> hp]

\* GetCStringSymbolData, lines 199-225.
GetCStringSymbolData(f, module, paths, buffers, hp, fresh) ==
  UNION {IF o.result = "FOUND"
         THEN {DuplicateAndRegister(o, module, buffers, hp, fresh, new) :
                 new \in NewOutcomes}
         ELSE {[fs |-> o.fs, symbol_file |-> o.symbol_file, trace |-> o.trace,
                symbol_data |-> o.symbol_data, size |-> 0, new |-> "none",
                returned |-> (o.result # "SIGSEGV"), result |-> o.result,
                buffer |-> 0, memory_buffers_ |-> buffers, heap |-> hp]}
         : o \in GetSymbolFileAndData(f, module, paths)}

\* FreeSymbolData that deletes the buffer and forgets to erase the entry.
FreeSymbolData_NoErase(module, buffers, hp) ==
  IF module = NULL
  THEN [memory_buffers_ |-> buffers, heap |-> hp, freed |-> 0]
  ELSE IF module.code_file \notin DOMAIN buffers
  THEN [memory_buffers_ |-> buffers, heap |-> hp, freed |-> 0]
  ELSE [memory_buffers_ |-> buffers,
        heap |-> [q \in (DOMAIN hp) \ {buffers[module.code_file]} |-> hp[q]],
        freed |-> buffers[module.code_file]]

\* FreeSymbolData without the test of line 234: a key that is not in the
\* map makes it delete and erase some entry that is.
FreeSymbolData_NoEndCheck(module, buffers, hp) ==
  IF module = NULL \/ DOMAIN buffers = {}
  THEN [memory_buffers_ |-> buffers, heap |-> hp, freed |-> 0]
  ELSE LET key == IF module.code_file \in DOMAIN buffers
                  THEN module.code_file
                  ELSE CHOOSE k \in DOMAIN buffers : TRUE
       IN [memory_buffers_ |-> [q \in (DOMAIN buffers) \ {key} |-> buffers[q]],
           heap |-> [q \in (DOMAIN hp) \ {buffers[key]} |-> hp[q]],
           freed |-> buffers[key]]

\* FreeSymbolData, lines 227-241: the registry and heap afterwards and the
\* buffer delete[] was applied to (0: none).
FreeSymbolData(module, buffers, hp) ==
  IF module = NULL
  THEN [memory_buffers_ |-> buffers, heap |-> hp, freed |-> 0]
  ELSE IF module.code_file \notin DOMAIN buffers
  THEN [memory_buffers_ |-> buffers, heap |-> hp, freed |-> 0]
  ELSE [memory_buffers_ |-> [q \in (DOMAIN buffers) \ {module.code_file} |->
                               buffers[q]],
        heap |-> [q \in (DOMAIN hp) \ {buffers[module.code_file]} |-> hp[q]],
        freed |-> buffers[module.code_file]]

\* A call of GetCStringSymbolData.
CallGetCStringSymbolData(module) ==
  /\ alive
  /\ Len(issued) < MaxAllocs
  /\ \E o \in GetCStringSymbolData(fs, module, paths_, memory_buffers_, heap,
                                   Len(issued) + 1) :
       /\ fs' = o.fs
       /\ alive' = (o.result # "SIGSEGV")
       /\ memory_buffers_' = o.memory_buffers_
       /\ heap' = o.heap
       /\ issued' = IF o.buffer # 0
                    THEN Append(issued, [buffer |-> o.buffer,
                                         code_file |-> module.code_file])
                    ELSE issued
       /\ last' = [NoCall EXCEPT !.op = "GetCStringSymbolData",
                     !.module = module, !.returned = o.returned,
                     !.result = o.result, !.symbol_file = o.symbol_file,
                     !.trace = o.trace, !.symbol_data = o.symbol_data,
                     !.buffer = o.buffer, !.size = o.size, !.new = o.new,
                     !.pre = Pre]
  /\ UNCHANGED <<paths_, freed>>

\* A call of FreeSymbolData.
CallFreeSymbolData(module) ==
  /\ alive
  /\ LET o == FreeSymbolData(module, memory_buffers_, heap)
     IN /\ memory_buffers_' = o.memory_buffers_
        /\ heap' = o.heap
        /\ freed' = IF o.freed # 0 THEN Append(freed, o.freed) ELSE freed
        /\ last' = [NoCall EXCEPT !.op = "FreeSymbolData", !.module = module,
                      !.result = "void", !.freed = o.freed, !.pre = Pre]
  /\ UNCHANGED <<fs, paths_, issued, alive>>

\* The lookups, on a supplier whose buffers are not in use.
Next ==
  \E module \in Modules \cup {NULL} :
    \/ CallGetSymbolFile(module)
    \/ CallGetSymbolFileAndData(module)

Spec == Init /\ [][Next]_vars

\* The cache under CacheRoot once AppModule's symbol file, with contents
\* bytes, has been fetched and converted there: the filesystem one successful
\* GetSymbolFile(AppModule) leaves behind.
CachedFs(bytes) ==
  [dirs |-> {RootDir, CacheRoot, ReadOnlyRoot,
             Dirname(Dirname(SymPath(CacheRoot, AppModule))),
             Dirname(SymPath(CacheRoot, AppModule))},
   files |-> FilesWith(NoFiles, SymPath(CacheRoot, AppModule), bytes),
   ro |-> {ReadOnlyRoot}]

\* A supplier over a cache that already serves AppModule.
InitBuffers ==
  /\ paths_ \in {<<CacheRoot>>, <<ReadOnlyRoot, CacheRoot>>}
  /\ fs \in {CachedFs(bytes) : bytes \in ConvertedOutputs}
  /\ memory_buffers_ = NoBuffers
  /\ heap = NoBuffers
  /\ issued = <<>>
  /\ freed = <<>>
  /\ alive = TRUE
  /\ last = NoCall

\* The owned-buffer protocol.
NextBuffers ==
  \E module \in Modules \cup {NULL} :
    \/ CallGetCStringSymbolData(module)
    \/ CallFreeSymbolData(module)

SpecBuffers == InitBuffers /\ [][NextBuffers]_vars

\* ------------------------------------------------------------ properties

IsLookup(call) ==
  call.op \in {"GetSymbolFile", "GetSymbolFileAndData", "GetCStringSymbolData"}

\* Calls of load_url and of system during the latest call.
Fetches(call) == Cardinality({i \in DOMAIN call.trace : call.trace[i].fetches = 1})
SystemCalls(call) ==
  Cardinality({i \in DOMAIN call.trace : call.trace[i].system_calls = 1})

\* The latest call was a lookup of a module whose path derivation succeeds,
\* with the symbol file already there under the first root.
CacheHitCase ==
  /\ IsLookup(last)
  /\ DeriveOk(last.module)
  /\ paths_ # <<>>
  /\ file_exists(last.pre.fs, SymPath(paths_[1], last.module))

\* C1: a lookup that finds the symbol file already present under the first
\* root returns FOUND with that path, calls neither load_url nor system, and
\* leaves every file and directory as it was.
CacheHitShortCircuit ==
  CacheHitCase =>
    /\ last.returned
    /\ last.result \in {"FOUND", "INTERRUPT", "bad_alloc"}
    /\ last.op = "GetSymbolFile" => last.result = "FOUND"
    /\ last.symbol_file = SymPath(paths_[1], last.module)
    /\ Fetches(last) = 0
    /\ SystemCalls(last) = 0
    /\ fs = last.pre.fs

\* A cache hit by GetSymbolFile on a file an earlier call put there.
CacheHitReached ==
  /\ CacheHitCase
  /\ last.op = "GetSymbolFile"
  /\ last.result = "FOUND"
  /\ SymPath(paths_[1], last.module) \in DOMAIN fs.files

\* C2: GetSymbolFile takes the roots in their configured order and stops at
\* the first one that ends with the symbol file present, returning FOUND and
\* that root's symbol path; when none does (or there is no root) it has gone
\* through all of them and returns NOT_FOUND with an empty path.
OrderedRootsFirstHitWins ==
  (last.op = "GetSymbolFile" /\ last.returned) =>
    LET t == last.trace
        n == Len(last.trace)
    IN /\ n <= Len(paths_)
       /\ \A i \in 1..n : t[i].root = paths_[i]
       /\ \A i \in 1..(n - 1) : ~t[i].present
       /\ last.result \in {"FOUND", "NOT_FOUND"}
       /\ last.result = "FOUND" =>
            /\ n >= 1
            /\ t[n].present
            /\ last.symbol_file = SymPath(paths_[n], last.module)
            /\ file_exists(fs, last.symbol_file)
       /\ last.result = "NOT_FOUND" =>
            /\ n = Len(paths_)
            /\ \A i \in 1..n : ~t[i].present
            /\ last.symbol_file = <<>>

\* GetSymbolFile found the file under the second root after the first root
\* had failed.
SecondRootHitReached ==
  /\ last.op = "GetSymbolFile"
  /\ last.result = "FOUND"
  /\ Len(last.trace) = 2
  /\ last.symbol_file = SymPath(paths_[2], last.module)

\* C3: at a root where the symbol file is absent and the fetch fails, the
\* root's attempt ends NOT_FOUND, creates or writes no file at path_pdb and
\* leaves the filesystem as it found it.
FetchFailureWritesNothing ==
  IsLookup(last) =>
    \A i \in DOMAIN last.trace :
      (last.trace[i].fetches = 1 /\ ~last.trace[i].fetch_ok) =>
        /\ last.returned
        /\ ~last.trace[i].present
        /\ ~last.trace[i].opened
        /\ ~last.trace[i].changed

\* C4: at a root where the symbol file is absent, the fetch succeeds and the
\* converter exits with a failure status, the symbol file does not exist
\* afterwards, the native file is still at path_pdb, and the root's attempt
\* ends NOT_FOUND.
ConversionFailureLeavesNativeOnly ==
  IsLookup(last) =>
    \A i \in DOMAIN last.trace :
      (/\ last.trace[i].fetches = 1
       /\ last.trace[i].fetch_ok
       /\ last.trace[i].ran
       /\ last.trace[i].status # 0) =>
        /\ ~last.trace[i].present
        /\ ~file_exists(fs, SymPath(last.trace[i].root, last.module))
        /\ PdbPath(last.trace[i].root, last.module) \in DOMAIN fs.files

\* C5: after FreeSymbolData(m) the registry has no entry for m's code_file,
\* and the entry of every other code_file is the one it was before the call.
ReleaseRemovesOnlyThatEntry ==
  (last.op = "FreeSymbolData" /\ last.module # NULL) =>
    /\ last.module.code_file \notin DOMAIN memory_buffers_
    /\ DOMAIN memory_buffers_ =
         (DOMAIN last.pre.memory_buffers_) \ {last.module.code_file}
    /\ \A k \in DOMAIN memory_buffers_ :
         memory_buffers_[k] = last.pre.memory_buffers_[k]

\* A release of a registered module while another module is registered too.
ReleaseAmongOthersReached ==
  /\ last.op = "FreeSymbolData"
  /\ last.module # NULL
  /\ last.module.code_file \in DOMAIN last.pre.memory_buffers_
  /\ last.freed # 0
  /\ DOMAIN memory_buffers_ # {}

\* C6: FreeSymbolData of a null module, or of one whose code_file has no
\* entry, returns normally, frees nothing and leaves the registry and the
\* live buffers as they were.
ReleaseOfUnregisteredIsNoOp ==
  (/\ last.op = "FreeSymbolData"
   /\ \/ last.module = NULL
      \/ last.module.code_file \notin DOMAIN last.pre.memory_buffers_) =>
    /\ last.returned
    /\ alive
    /\ last.freed = 0
    /\ memory_buffers_ = last.pre.memory_buffers_
    /\ heap = last.pre.heap

\* A release of an unregistered module while the registry holds a buffer.
ReleaseOfUnregisteredReached ==
  /\ last.op = "FreeSymbolData"
  /\ last.module # NULL
  /\ last.module.code_file \notin DOMAIN last.pre.memory_buffers_
  /\ DOMAIN last.pre.memory_buffers_ # {}
  /\ memory_buffers_ = last.pre.memory_buffers_

\* The buffer the latest successful GetCStringSymbolData for code_file
\* returned; 0 when there was none.
MostRecentBuffer(code_file) ==
  LET at == {i \in DOMAIN issued : issued[i].code_file = code_file}
  IN IF at = {} THEN 0 ELSE issued[Max(at)].buffer

\* C7: whenever the registry has an entry for a code_file, it is the buffer
\* the most recent successful GetCStringSymbolData for that code_file returned.
RegistryHoldsMostRecentBuffer ==
  \A k \in DOMAIN memory_buffers_ : memory_buffers_[k] = MostRecentBuffer(k)

\* The buffers issued for code_file and not freed yet.
LiveBuffers(code_file) ==
  {i \in DOMAIN issued :
     issued[i].code_file = code_file /\ issued[i].buffer \in DOMAIN heap}

\* C8: at most one buffer issued for a code_file is live at any time.
AtMostOneLiveBufferPerModule ==
  \A i \in DOMAIN issued : Cardinality(LiveBuffers(issued[i].code_file)) <= 1

\* C9: when GetCStringSymbolData returns FOUND the size is the length of the
\* data read plus 1, the buffer holds that data followed by a 0 byte and is
\* the registry's entry for the module's code_file; when it returns NOT_FOUND
\* nothing was allocated and the registry is as it was.
OwnedBufferShape ==
  (last.op = "GetCStringSymbolData" /\ last.returned) =>
    /\ last.result = "FOUND" =>
         /\ last.size = Len(last.symbol_data) + 1
         /\ last.buffer \in DOMAIN heap
         /\ Len(heap[last.buffer]) = last.size
         /\ SubstrTo(heap[last.buffer], last.size - 1) = last.symbol_data
         /\ heap[last.buffer][last.size] = 0
         /\ last.module.code_file \in DOMAIN memory_buffers_
         /\ memory_buffers_[last.module.code_file] = last.buffer
    /\ last.result = "NOT_FOUND" =>
         /\ last.buffer = 0
         /\ heap = last.pre.heap
         /\ memory_buffers_ = last.pre.memory_buffers_

\* C10: when the symbol file is found and the allocation of the copy fails,
\* GetCStringSymbolData returns INTERRUPT and the registry gains no entry;
\* no other path yields INTERRUPT.
AllocationFailureIsInterrupt ==
  /\ (last.op = "GetCStringSymbolData" /\ last.new \in {"null", "bad_alloc"}) =>
       /\ last.returned
       /\ last.result = "INTERRUPT"
       /\ memory_buffers_ = last.pre.memory_buffers_
  /\ last.result = "INTERRUPT" =>
       (last.op = "GetCStringSymbolData" /\ last.new # "allocated")

\* C11: when the four-argument GetSymbolFile returns FOUND, the string it
\* hands back is the whole content of the file at the resolved path, whatever
\* bytes that holds; otherwise the string is empty.
WholeFileRead ==
  (last.op = "GetSymbolFileAndData" /\ last.returned) =>
    /\ last.result = "FOUND" =>
         /\ last.symbol_file \in DOMAIN fs.files
         /\ last.symbol_data = fs.files[last.symbol_file]
    /\ last.result # "FOUND" => last.symbol_data = <<>>

\* C17: at a root where the symbol file is absent, the fetch succeeds and the
\* converter exits with status 0, the call returns FOUND with that root's
\* symbol path, the symbol file exists and no native file is left.
SuccessfulPipelineCleansUp ==
  IsLookup(last) =>
    \A i \in DOMAIN last.trace :
      (/\ last.trace[i].fetches = 1
       /\ last.trace[i].fetch_ok
       /\ last.trace[i].ran
       /\ last.trace[i].status = 0) =>
        /\ last.returned
        /\ i = Len(last.trace)
        /\ last.trace[i].present
        /\ last.result = "FOUND"
        /\ last.symbol_file = last.trace[i].path
        /\ last.symbol_file = SymPath(paths_[i], last.module)
        /\ file_exists(fs, last.trace[i].path)
        /\ ~file_exists(fs, last.trace[i].path_pdb)

\* A lookup that fetched, wrote the native file and converted it.
SuccessfulPipelineReached ==
  /\ last.op = "GetSymbolFile"
  /\ last.trace # <<>>
  /\ last.trace[Len(last.trace)].fetch_ok
  /\ last.trace[Len(last.trace)].opened
  /\ last.trace[Len(last.trace)].ran
  /\ last.trace[Len(last.trace)].status = 0
  /\ last.result = "FOUND"

\* A root's attempt failed: the fetch, the write of the native file or the
\* conversion.
PipelineFailed(log) ==
  /\ log.fetches = 1
  /\ \/ ~log.fetch_ok
     \/ ~log.opened
     \/ (log.system_calls = 1 /\ log.status # 0)

\* C18: within one lookup a failed fetch, write or conversion at a root makes
\* that root NOT_FOUND and the next root is still tried; load_url and system
\* are each called at most once per root, and system only after that root's
\* fetch succeeded.
FailuresCollapsePerRoot ==
  IsLookup(last) =>
    \A i \in DOMAIN last.trace :
      /\ last.trace[i].fetches <= 1
      /\ last.trace[i].system_calls <= 1
      /\ last.trace[i].system_calls = 1 => last.trace[i].fetch_ok
      /\ PipelineFailed(last.trace[i]) =>
           /\ last.returned
           /\ ~last.trace[i].present
           /\ i < Len(paths_) => Len(last.trace) > i

\* C20: every buffer FreeSymbolData deleted had been issued by
\* GetCStringSymbolData and was live, and none is deleted twice.
NoDoubleOrForeignFree ==
  /\ \A i \in DOMAIN freed : \E j \in DOMAIN issued : issued[j].buffer = freed[i]
  /\ \A i, j \in DOMAIN freed : i # j => freed[i] # freed[j]
  /\ (last.op = "FreeSymbolData" /\ last.freed # 0) =>
       last.freed \in DOMAIN last.pre.heap
  /\ \A k \in DOMAIN memory_buffers_ : memory_buffers_[k] \in DOMAIN heap

\* A second FreeSymbolData for a module whose buffer was freed already.
SecondReleaseReached ==
  /\ last.op = "FreeSymbolData"
  /\ last.module # NULL
  /\ last.freed = 0
  /\ \E i \in DOMAIN freed : \E j \in DOMAIN issued :
       /\ issued[j].buffer = freed[i]
       /\ issued[j].code_file = last.module.code_file
  /\ last.module.code_file \notin DOMAIN last.pre.memory_buffers_

\* ------------------------------------------------- path derivation, checked
\* A supplier with one root, asked once about a module drawn from a range of
\* code_file / debug_file / debug_identifier / version values.

CodeFiles ==
  {<<"a","p","p",".","e","x","e">>, <<"a","b">>, <<"a","b","c">>,
   <<"a","b","c","d">>, <<"c",":","\\","l","i","b",".","d","l","l">>}
DebugFiles ==
  {<<>>, <<"a","p","p",".","p","d","b">>, <<"l","i","b",".","P","D","B">>,
   <<".","p","d","b">>, <<"d","/">>,
   <<"c",":","\\","x","\\","s","y","m",".","d","b","g">>,
   <<"a",".","p","d">>}
DebugIdentifiers == {<<>>, <<"A","B","C","1","2","3">>}
Versions == {<<>>, <<"1",".","0">>}

DeriveModules ==
  {[code_file |-> c, debug_file |-> d, debug_identifier |-> i, version |-> v] :
     c \in CodeFiles, d \in DebugFiles, i \in DebugIdentifiers, v \in Versions}

InitDerive ==
  /\ paths_ \in {<<CacheRoot>>, <<ReadOnlyRoot>>}
  /\ fs = [dirs |-> {RootDir, CacheRoot, ReadOnlyRoot}, files |-> NoFiles,
           ro |-> {ReadOnlyRoot}]
  /\ memory_buffers_ = NoBuffers
  /\ heap = NoBuffers
  /\ issued = <<>>
  /\ freed = <<>>
  /\ alive = TRUE
  /\ last = NoCall

\* The supplier's first call of GetSymbolFile.
FirstGetSymbolFile(module) ==
  /\ last.op = "none"
  /\ CallGetSymbolFile(module)

NextDerive == \E module \in DeriveModules : FirstGetSymbolFile(module)

SpecDerive == InitDerive /\ [][NextDerive]_vars

\* C12: for a module whose debug_file is not empty, debug_file_name is never
\* made up from code_file by dropping three characters and appending "pdb".
NonEmptyDebugFileBypassesHeuristic ==
  (last.op = "GetSymbolFile" /\ last.module.debug_file # <<>>) =>
    \A i \in DOMAIN last.trace : ~last.trace[i].assumed

AppSymPath ==
  <<"/","c","a","c","h","e","/","a","p","p",".","p","d","b","/",
    "A","B","C","1","2","3","/","a","p","p",".","s","y","m">>
AppUrlSuffix ==
  <<"/","a","p","p",".","p","d","b","/","A","B","C","1","2","3","/",
    "a","p","p",".","p","d","b">>

\* C13: with an empty debug_file, a code_file base name of at most three
\* characters makes the root's attempt NOT_FOUND with no fetch, no converter
\* and no change on disk; a longer one gives the debug file name "base name
\* without its last three characters, then pdb".  For app.exe / ABC123 under
\* /cache: /cache/app.pdb/ABC123/app.sym, fetched from .../app.pdb/ABC123/app.pdb.
DebugFileNameSynthesis ==
  (last.op = "GetSymbolFile" /\ last.module.debug_file = <<>>) =>
    LET base == PathnameStripperFile(last.module.code_file)
    IN \A i \in DOMAIN last.trace :
         /\ Len(base) <= 3 =>
              /\ ~last.trace[i].derived
              /\ ~last.trace[i].present
              /\ last.result = "NOT_FOUND"
              /\ Fetches(last) = 0
              /\ SystemCalls(last) = 0
              /\ fs = last.pre.fs
         /\ Len(base) > 3 =>
              /\ last.trace[i].derived
              /\ last.trace[i].debug_file_name =
                   SubSeq(base, 1, Len(base) - 3) \o <<"p","d","b">>
         /\ (last.module = AppModule /\ last.trace[i].root = CacheRoot) =>
              /\ last.trace[i].path = AppSymPath
              /\ last.trace[i].url = SymbolServer \o AppUrlSuffix

\* The lookup of app.exe / ABC123 under /cache.
AppExeLookupReached ==
  /\ last.op = "GetSymbolFile"
  /\ last.module = AppModule
  /\ paths_ = <<CacheRoot>>
  /\ last.trace[1].fetches = 1
  /\ last.trace[1].path \in DOMAIN fs.files

\* The directory level C15 describes for a module.
ClaimedSegment(module) ==
  IF module.debug_identifier # <<>> THEN <<"/">> \o module.debug_identifier
  ELSE IF module.version # <<>> THEN <<"/">> \o module.version
  ELSE <<>>

\* No path segment of s is empty: no separator follows another and none
\* ends s.
NoEmptySegment(s) ==
  /\ \A k \in 1..(Len(s) - 1) : ~(s[k] = "/" /\ s[k + 1] = "/")
  /\ s # <<>> => s[Len(s)] # "/"

\* C15: the derived paths are root/name/SEG/stem.sym and root/name/SEG/stem.pdb
\* with SEG the debug_identifier when it is not empty, else the version when
\* that is not empty; with both empty the level is left out and no segment
\* of the path is empty.
IdentifierVersionSegment ==
  last.op = "GetSymbolFile" =>
    \A i \in DOMAIN last.trace :
      last.trace[i].derived =>
        LET name == last.trace[i].debug_file_name
            dir == last.trace[i].root \o <<"/">> \o name
                     \o ClaimedSegment(last.module) \o <<"/">>
        IN /\ last.trace[i].path = dir \o FileStem(name) \o <<".","s","y","m">>
           /\ last.trace[i].path_pdb = dir \o FileStem(name) \o <<".","p","d","b">>
           /\ NoEmptySegment(last.trace[i].path)
           /\ NoEmptySegment(last.trace[i].path_pdb)

\* A derivation for a module with neither debug_identifier nor version.
NoSegmentReached ==
  /\ last.op = "GetSymbolFile"
  /\ last.module.debug_identifier = <<>>
  /\ last.module.version = <<>>
  /\ last.trace[1].derived
  /\ last.trace[1].path =
       last.trace[1].root \o <<"/">> \o last.trace[1].debug_file_name
         \o <<"/">> \o FileStem(last.trace[1].debug_file_name)
         \o <<".","s","y","m">>

\* The stem C16 describes for a debug file name.
ClaimedStem(name) ==
  IF Len(name) >= 4
     /\ ToLowerStr(SubSeq(name, Len(name) - 3, Len(name))) = <<".","p","d","b">>
  THEN SubSeq(name, 1, Len(name) - 4)
  ELSE name

\* C16: the file stem is the debug file name without its last four
\* characters when those, lower-cased, are ".pdb" (the name ".pdb" itself
\* included), and the name unchanged otherwise.
StemRule ==
  last.op = "GetSymbolFile" =>
    \A i \in DOMAIN last.trace :
      last.trace[i].derived =>
        last.trace[i].path =
          last.trace[i].root \o <<"/">> \o last.trace[i].debug_file_name
            \o IdentifierSegment(last.module) \o <<"/">>
            \o ClaimedStem(last.trace[i].debug_file_name) \o <<".","s","y","m">>

\* ------------------------------------------------------- mkpath, checked
\* mkpath called on its own, over a range of filesystems and target paths.

\* A call of mkpath with the outcome of its malloc (line 116) given: without
\* the buffer nothing is created and it returns 0 (lines 117-118, 147-151).
MkpathCall(f, path, malloc_ok) ==
  IF Len(path) <= 0 THEN [fs |-> f, ret |-> 0]
  ELSE IF ~malloc_ok THEN [fs |-> f, ret |-> 0]
  ELSE mkpath(f, path)

CacheA == CacheRoot \o <<"/","a">>
CacheF == CacheRoot \o <<"/","f">>

MkpathPaths ==
  {<<>>,
   CacheA \o <<"/","b",".","p","d","b">>,
   CacheA \o <<"/","b","/","c",".","p","d","b">>,
   CacheA \o <<"/">>,
   CacheA \o <<"\\","b","/">>,
   CacheF \o <<"/","g",".","p","d","b">>,
   ReadOnlyRoot \o <<"/","x","/","y",".","p","d","b">>,
   ReadOnlyRoot \o <<"/","x","/","y","/","z",".","p","d","b">>}

\* The filesystems mkpath may be called in: the cache root missing, empty,
\* or holding the directory a and possibly the regular file f.
MkpathFilesystems ==
  {[dirs |-> {RootDir, ReadOnlyRoot} \cup d, files |-> f, ro |-> {ReadOnlyRoot}] :
     d \in {{}, {CacheRoot}, {CacheRoot, CacheA}},
     f \in {NoFiles, FilesWith(NoFiles, CacheF, <<>>)}}

NoMkpathCall ==
  [op |-> "none", path |-> <<>>, malloc_ok |-> TRUE, ret |-> 0,
   repeated |-> FALSE,
   pre |-> [fs |-> [dirs |-> {}, files |-> NoFiles, ro |-> {}]]]

InitMkpath ==
  /\ fs \in {f \in MkpathFilesystems :
               CacheF \in DOMAIN f.files => CacheRoot \in f.dirs}
  /\ paths_ = <<>>
  /\ memory_buffers_ = NoBuffers
  /\ heap = NoBuffers
  /\ issued = <<>>
  /\ freed = <<>>
  /\ alive = TRUE
  /\ last = NoMkpathCall

\* A call of mkpath; `repeated` tells that the call before it was a call
\* with the same path that got its buffer.
CallMkpath(path, malloc_ok) ==
  /\ fs' = MkpathCall(fs, path, malloc_ok).fs
  /\ last' = [op |-> "mkpath", path |-> path, malloc_ok |-> malloc_ok,
              ret |-> MkpathCall(fs, path, malloc_ok).ret,
              repeated |-> (last.op = "mkpath" /\ last.path = path
                              /\ last.malloc_ok),
              pre |-> [fs |-> fs]]
  /\ UNCHANGED <<paths_, memory_buffers_, heap, issued, freed, alive>>

NextMkpath ==
  \E path \in MkpathPaths, malloc_ok \in BOOLEAN : CallMkpath(path, malloc_ok)

SpecMkpath == InitMkpath /\ [][NextMkpath]_vars

\* The directories mkpath tries to create for a path: what precedes each
\* separator from the second character on (lines 132-143).
Intermediates(path) ==
  {SubstrTo(path, q - 1) :
     q \in {i \in 2..Len(path) : path[i] = "\\" \/ path[i] = "/"}}

EndsInSlash(path) == path # <<>> /\ path[Len(path)] = "/"
HasBackslash(path) == \E i \in 1..Len(path) : path[i] = "\\"

MkpathFailsExactlyOnRealErrors ==
  (last.op = "mkpath" /\ last.path # <<>> /\ last.malloc_ok) =>
    /\ last.ret = 0 <=>
         (\E d \in Intermediates(last.path) : ~file_exists(fs, d))
    /\ last.ret = 1 => Intermediates(last.path) \subseteq fs.dirs

====
